---- MODULE Spec2Model ----
(***************************************************************************)
(* A model of src/app.py: the mtime-based index cache                      *)
(* (get_index_and_engine and its helpers) and the single Flask route       *)
(* (home).  Texts are sequences of one-token strings; modification times   *)
(* are whole ticks after the epoch; a file version is named by its file    *)
(* and modification time, the way the program itself tells versions apart, *)
(* and an index holds the file versions it was built from.                 *)
(***************************************************************************)
EXTENDS Naturals, Sequences, FiniteSets, TLC

\* ------------------------------------------------------------- bounds
MaxTime == 2
MaxHist == 2
TraceLen == 3
MaxStamp == 12
MaxRequests == 2

Procs == {1, 2}
Files == {"a.txt"}
Times == 1 .. MaxTime
Stamps == 0 .. MaxStamp
Names == {"a.txt", "b.txt", "sub"}

\* ------------------------------------------------------------- texts
DigitChars == <<"0", "1", "2", "3", "4", "5", "6", "7", "8", "9">>
Whitespace == {" ", "\n"}

IsDigit(c) == \E d \in 1 .. 10 : DigitChars[d] = c
DigitVal(c) == (CHOOSE d \in 1 .. 10 : DigitChars[d] = c) - 1

RECURSIVE Digits(_)
Digits(n) == IF n < 10 THEN <<DigitChars[n + 1]>> ELSE Digits(n \div 10) \o <<DigitChars[(n % 10) + 1]>>

\* str(ts) of a float holding a whole number: "3.0"
Str(ts) == Digits(ts) \o <<".", "0">>

RECURSIVE LStrip(_)
LStrip(s) == IF s # <<>> /\ Head(s) \in Whitespace THEN LStrip(Tail(s)) ELSE s

RECURSIVE RStrip(_)
RStrip(s) == IF s # <<>> /\ s[Len(s)] \in Whitespace THEN RStrip(SubSeq(s, 1, Len(s) - 1)) ELSE s

\* str.strip()
Strip(s) == RStrip(LStrip(s))

RECURSIVE DigitsVal(_)
DigitsVal(s) == IF s = <<>> THEN 0 ELSE DigitsVal(SubSeq(s, 1, Len(s) - 1)) * 10 + DigitVal(s[Len(s)])

AllDigits(s) == \A i \in 1 .. Len(s) : IsDigit(s[i])
AllZeros(s) == \A i \in 1 .. Len(s) : s[i] = "0"
DotAt(s) == IF \E i \in 1 .. Len(s) : s[i] = "." THEN CHOOSE i \in 1 .. Len(s) : s[i] = "." /\ \A j \in 1 .. (i - 1) : s[j] # "." ELSE 0

\* float(text) on the texts of the model: digits, optionally followed by a
\* point and zeros, with surrounding whitespace ignored.  Anything else is a
\* ValueError.
FloatOk(s) == LET t == Strip(s) d == DotAt(t) IN IF d = 0 THEN t # <<>> /\ AllDigits(t) ELSE d > 1 /\ AllDigits(SubSeq(t, 1, d - 1)) /\ AllZeros(SubSeq(t, d + 1, Len(t)))
Float(s) == LET t == Strip(s) d == DotAt(t) IN IF d = 0 THEN DigitsVal(t) ELSE DigitsVal(SubSeq(t, 1, d - 1))

\* ------------------------------------------------------------- values
NoEntry == [kind |-> "none", mtime |-> 0]
NoDocs == [f \in Files |-> 0]
None == [id |-> 0, docs |-> NoDocs]
NoEngine == [of |-> 0]
NoMarker == [exists |-> FALSE, text |-> <<>>]
NoPersisted == [exists |-> FALSE, docs |-> NoDocs]
NoField == [has |-> FALSE, question |-> <<>>]
NoSession == [has |-> FALSE, chat_history |-> <<>>]

\* what os.listdir and os.path.isfile / getmtime can report of a folder: each
\* name is absent, a regular file, or a subfolder (empty, or holding a file
\* newer than any file of the folder itself)
Entries == {NoEntry} \cup [kind : {"file"}, mtime : Times] \cup [kind : {"dir"}, mtime : Times, inside : {0, MaxTime + 1}]
Listings == [Names -> Entries]
NoListing == [n \in Names |-> NoEntry]
NoWarm == [on |-> FALSE, index |-> None, engine |-> NoEngine]
NoCall == [op |-> "none", ts |-> 0, writes |-> 0, made |-> FALSE, isdir |-> FALSE, entries |-> NoListing, ret |-> 0]

NoDataMsg == <<"No data found in /data folder. Add files and refresh.">>
QueryErrorPrefix == <<"Query error: ">>
QueryResults == {<<"answer">>}
QueryErrors == {<<"timeout">>}

\* what a client can send in the form field "question"
Forms == {NoField, [has |-> TRUE, question |-> <<>>], [has |-> TRUE, question |-> <<" ", "\n">>], [has |-> TRUE, question |-> <<"hello">>], [has |-> TRUE, question |-> <<" ", "hello", "\n">>]}

\* what an out-of-band edit can leave in the marker file
MarkerTexts == {<<"1", ".", "x">>, <<" ", "1", "\n">>}

VARIABLES dataDir, files, persistDir, persisted, marker, _index, _query_engine, session, req, retry, trace, call, warm, started

vars == <<dataDir, files, persistDir, persisted, marker, _index, _query_engine, session, req, retry, trace, call, warm, started>>
folder == <<dataDir, files>>
storage == <<persistDir, persisted, marker>>
globals == <<_index, _query_engine>>
ghosts == <<retry, trace, call, warm, started>>

\* ------------------------------------------------------------- helpers
AnyEntries(fs) == {f \in DOMAIN fs : fs[f].kind # "none"}

\* line 31: the names that os.path.isfile accepts
RegularFiles(fs) == {f \in DOMAIN fs : fs[f].kind = "file"}

RECURSIVE MaxOf(_)
MaxOf(S) == IF S = {} THEN 0 ELSE LET x == CHOOSE y \in S : TRUE m == MaxOf(S \ {x}) IN IF x > m THEN x ELSE m

\* _latest_mtime(DATA_DIR)
LatestMtime(isdir, fs) == IF ~isdir THEN 0 ELSE IF RegularFiles(fs) = {} THEN 0 ELSE MaxOf({fs[f].mtime : f \in RegularFiles(fs)})

\* _read_cached_build_time()
ReadCachedBuildTime(mk) == IF ~mk.exists THEN 0 ELSE IF FloatOk(mk.text) THEN Float(mk.text) ELSE 0

WriteCachedAppend(ts) == [exists |-> TRUE, text |-> marker.text \o Str(ts)]

\* _write_cached_build_time(ts): the marker file after the write
WriteCachedBuildTime(ts) == [exists |-> TRUE, text |-> Str(ts)]

InMemoryAlways(idx, data_mtime, cached_mtime) == idx # None

InMemoryStrict(idx, data_mtime, cached_mtime) == idx # None /\ data_mtime < cached_mtime

\* line 73: the in-memory pair is reused
InMemoryFresh(idx, data_mtime, cached_mtime) == idx # None /\ data_mtime <= cached_mtime

DiskFreshStrict(pdir, mk, data_mtime, cached_mtime) == pdir /\ mk.exists /\ data_mtime < cached_mtime

\* line 77: the persisted index is loaded
DiskFresh(pdir, mk, data_mtime, cached_mtime) == pdir /\ mk.exists /\ data_mtime <= cached_mtime

\* line 82: nothing to build from
NoData(isdir, fs) == ~isdir \/ LatestMtime(isdir, fs) = 0

\* SimpleDirectoryReader(DATA_DIR).load_data(): the file versions it reads
LoadData(fs) == [f \in Files |-> IF fs[f].kind = "file" THEN fs[f].mtime ELSE 0]

\* request.form.get("question", "")
FormGet(fm) == IF fm.has THEN fm.question ELSE <<>>

\* line 105-106
Question(fm) == Strip(FormGet(fm))
IsBlankShort(q) == Len(q) <= 1
IsBlank(q) == q = <<>>

Pairs(s) == IF s.has THEN s.chat_history ELSE <<>>

\* line 116: f"Query error: {e}"
QueryErrorAnswer(e) == QueryErrorPrefix \o e

PrependPair(chat, q, a) == <<[q |-> q, a |-> a]>> \o chat

\* line 118: session["chat_history"].append({"q": question, "a": answer})
AppendPair(chat, q, a) == Append(chat, [q |-> q, a |-> a])

Methods == {"GET", "POST"}
ValidInput(m, fm) == m = "GET" => fm = NoField

\* the smallest name not in use
Fresh(used) == CHOOSE i \in 1 .. (Cardinality(used) + 1) : i \notin used /\ \A j \in 1 .. (i - 1) : j \in used

Snapshot == [session |-> session, index |-> _index, engine |-> _query_engine, marker |-> marker, persisted |-> persisted, persistDir |-> persistDir, retry |-> retry, warm |-> warm]
NoSnapshot == [session |-> NoSession, index |-> None, engine |-> NoEngine, marker |-> NoMarker, persisted |-> NoPersisted, persistDir |-> FALSE, retry |-> FALSE, warm |-> NoWarm]

IdleReq == [pc |-> "idle", method |-> "none", form |-> NoField, data_mtime |-> 0, cached_mtime |-> 0, documents |-> NoDocs, index |-> None, ret_index |-> None, ret_engine |-> NoEngine, question |-> <<>>, answer |-> <<>>, resp |-> "none", shown |-> <<>>, exc |-> "none", built |-> FALSE, loaded |-> FALSE, alone |-> TRUE, pre |-> NoSnapshot]

UsedIndexIds == {_index.id, _query_engine.of} \cup UNION {{req[p].index.id, req[p].ret_index.id, req[p].ret_engine.of, req[p].pre.index.id, req[p].pre.engine.of} : p \in Procs}

Quiet == \A p \in Procs : req[p].pc = "idle"

\* ------------------------------------------------------------- Init
Init ==
    /\ dataDir = TRUE
    /\ files = [f \in Files |-> NoEntry]
    /\ persistDir = FALSE
    /\ persisted = NoPersisted
    /\ marker = NoMarker
    /\ _index = None
    /\ _query_engine = NoEngine
    /\ session = NoSession
    /\ req = [p \in Procs |-> IdleReq]
    /\ retry = FALSE
    /\ trace = [on |-> TRUE, log |-> <<>>]
    /\ call = NoCall
    /\ warm = NoWarm
    /\ started = 0

\* ------------------------------------------------------------- requests
\* the last non-null pair a call returned, for as long as the folder and the
\* marker stay as they were and the process lives
Warmed(idx, eng) == IF idx # None /\ eng # NoEngine THEN [on |-> TRUE, index |-> idx, engine |-> eng] ELSE warm

Goto(p, label) == req' = [req EXCEPT ![p].pc = label]

\* an uncaught exception: Flask answers this request with a server error
\* (whatever its method and form were)
Raise(p, line) == \E m \in Methods, fm \in Forms : ValidInput(m, fm) /\ req' = [req EXCEPT ![p].pc = "done", ![p].resp = "error", ![p].exc = line, ![p].method = m, ![p].form = fm]

\* inside get_index_and_engine (lines 69-94, with _build_and_persist_index)
InCall(p) == req[p].pc \in {"L69", "L70", "L73", "L74", "L77", "L79", "L82", "L87", "L88", "L89", "L52", "L53", "L55", "L57", "L90", "L93", "L94"}

\* a request arrives and home() is entered, which calls get_index_and_engine
\* at once; the call runs alone unless another request is inside its own call
\* now or enters it before this one has left
Begin(p) ==
    /\ req[p].pc = "idle"
    /\ req' = [q \in Procs |-> IF q = p THEN [IdleReq EXCEPT !.pc = "L69", !.pre = Snapshot, !.alone = \A r \in Procs \ {p} : ~InCall(r)] ELSE IF InCall(q) THEN [req[q] EXCEPT !.alone = FALSE] ELSE req[q]]
    /\ UNCHANGED <<folder, storage, globals, session, retry, trace, call, warm>>

\* data_mtime = _latest_mtime(DATA_DIR)
L69(p) ==
    /\ req[p].pc = "L69"
    /\ req' = [req EXCEPT ![p].pc = "L70", ![p].data_mtime = LatestMtime(dataDir, files)]
    /\ UNCHANGED <<folder, storage, globals, session, ghosts>>

\* cached_mtime = _read_cached_build_time()
L70(p) ==
    /\ req[p].pc = "L70"
    /\ req' = [req EXCEPT ![p].pc = "L73", ![p].cached_mtime = ReadCachedBuildTime(marker)]
    /\ UNCHANGED <<folder, storage, globals, session, ghosts>>

\* Case 1: if _index is not None and data_mtime <= cached_mtime
L73(p) ==
    /\ req[p].pc = "L73"
    /\ Goto(p, IF InMemoryFresh(_index, req[p].data_mtime, req[p].cached_mtime) THEN "L74" ELSE "L77")
    /\ UNCHANGED <<folder, storage, globals, session, ghosts>>

\* return _index, _query_engine
L74(p) ==
    /\ req[p].pc = "L74"
    /\ req' = [req EXCEPT ![p].pc = "L101", ![p].ret_index = _index, ![p].ret_engine = _query_engine]
    /\ warm' = Warmed(_index, _query_engine)
    /\ UNCHANGED <<folder, storage, globals, session, retry, trace, call, started>>

\* Case 2: persisted index still fresh
L77(p) ==
    /\ req[p].pc = "L77"
    /\ IF DiskFresh(persistDir, marker, req[p].data_mtime, req[p].cached_mtime)
       THEN req' = [req EXCEPT ![p].pc = "L79", ![p].loaded = TRUE]
       ELSE Goto(p, "L82")
    /\ UNCHANGED <<folder, storage, globals, session, ghosts>>

\* _index = _load_index_from_disk(); raises when no index is stored
L79(p) ==
    /\ req[p].pc = "L79"
    /\ IF persisted.exists
       THEN /\ _index' = [id |-> Fresh(UsedIndexIds), docs |-> persisted.docs]
            /\ Goto(p, "L93")
       ELSE /\ Raise(p, "L79")
            /\ UNCHANGED _index
    /\ UNCHANGED <<folder, storage, _query_engine, session, ghosts>>

\* Case 3: if not os.path.isdir(DATA_DIR) or _latest_mtime(DATA_DIR) == 0.0
L82(p) ==
    /\ req[p].pc = "L82"
    /\ IF NoData(dataDir, files)
       THEN Goto(p, "L87")
       ELSE req' = [req EXCEPT ![p].pc = "L52", ![p].built = TRUE]
    /\ UNCHANGED <<folder, storage, globals, session, ghosts>>

\* _index = None
L87(p) ==
    /\ req[p].pc = "L87"
    /\ _index' = None
    /\ Goto(p, "L88")
    /\ UNCHANGED <<folder, storage, _query_engine, session, ghosts>>

\* _query_engine = None
L88(p) ==
    /\ req[p].pc = "L88"
    /\ _query_engine' = NoEngine
    /\ Goto(p, "L89")
    /\ UNCHANGED <<folder, storage, _index, session, ghosts>>

\* return _index, _query_engine
L89(p) ==
    /\ req[p].pc = "L89"
    /\ req' = [req EXCEPT ![p].pc = "L101", ![p].ret_index = _index, ![p].ret_engine = _query_engine]
    /\ warm' = Warmed(_index, _query_engine)
    /\ UNCHANGED <<folder, storage, globals, session, retry, trace, call, started>>

\* _build_and_persist_index: documents = SimpleDirectoryReader(DATA_DIR).load_data()
\* The reader raises on a missing or empty folder, and may raise on any file.
L52(p) ==
    /\ req[p].pc = "L52"
    /\ \/ /\ dataDir /\ RegularFiles(files) # {}
          /\ req' = [req EXCEPT ![p].pc = "L53", ![p].documents = LoadData(files)]
       \/ Raise(p, "L52")
    /\ UNCHANGED <<folder, storage, globals, session, ghosts>>

L53Clobber(p) ==
    /\ req[p].pc = "L53"
    /\ \/ /\ req' = [req EXCEPT ![p].pc = "L55", ![p].index = [id |-> Fresh(UsedIndexIds), docs |-> req[p].documents]]
          /\ UNCHANGED globals
       \/ /\ Raise(p, "L53")
          /\ _index' = None
          /\ _query_engine' = NoEngine
    /\ UNCHANGED <<folder, storage, session, ghosts>>

\* index = VectorStoreIndex.from_documents(documents); embedding may raise
L53(p) ==
    /\ req[p].pc = "L53"
    /\ \/ req' = [req EXCEPT ![p].pc = "L55", ![p].index = [id |-> Fresh(UsedIndexIds), docs |-> req[p].documents]]
       \/ Raise(p, "L53")
    /\ UNCHANGED <<folder, storage, globals, session, ghosts>>

\* index.storage_context.persist(persist_dir=PERSIST_DIR)
L55(p) ==
    /\ req[p].pc = "L55"
    /\ persistDir' = TRUE
    /\ persisted' = [exists |-> TRUE, docs |-> req[p].index.docs]
    /\ Goto(p, "L57")
    /\ UNCHANGED <<folder, marker, globals, session, ghosts>>

\* _write_cached_build_time(_latest_mtime(DATA_DIR))
L57(p) ==
    /\ req[p].pc = "L57"
    /\ persistDir' = TRUE
    /\ marker' = WriteCachedBuildTime(LatestMtime(dataDir, files))
    /\ Goto(p, "L90")
    /\ UNCHANGED <<folder, persisted, globals, session, ghosts>>

\* _index = _build_and_persist_index()
L90(p) ==
    /\ req[p].pc = "L90"
    /\ _index' = req[p].index
    /\ Goto(p, "L93")
    /\ UNCHANGED <<folder, storage, _query_engine, session, ghosts>>

L93Skip(p) ==
    /\ req[p].pc = "L93"
    /\ \/ /\ _index # None
          /\ Goto(p, "L94")
       \/ Raise(p, "L93")
    /\ UNCHANGED <<folder, storage, globals, session, ghosts>>

\* _query_engine = _index.as_query_engine(response_mode="compact")
L93(p) ==
    /\ req[p].pc = "L93"
    /\ \/ /\ _index # None
          /\ _query_engine' = [of |-> _index.id]
          /\ Goto(p, "L94")
       \/ /\ Raise(p, "L93")
          /\ UNCHANGED _query_engine
    /\ UNCHANGED <<folder, storage, _index, session, ghosts>>

\* return _index, _query_engine
L94(p) ==
    /\ req[p].pc = "L94"
    /\ req' = [req EXCEPT ![p].pc = "L101", ![p].ret_index = _index, ![p].ret_engine = _query_engine]
    /\ warm' = Warmed(_index, _query_engine)
    /\ UNCHANGED <<folder, storage, globals, session, retry, trace, call, started>>

\* if "chat_history" not in session: session["chat_history"] = []
L101Reset(p) ==
    /\ req[p].pc = "L101"
    /\ session' = [has |-> TRUE, chat_history |-> <<>>]
    /\ Goto(p, "L104")
    /\ UNCHANGED <<folder, storage, globals, ghosts>>

L101(p) ==
    /\ req[p].pc = "L101"
    /\ session' = IF session.has THEN session ELSE [has |-> TRUE, chat_history |-> <<>>]
    /\ Goto(p, "L104")
    /\ UNCHANGED <<folder, storage, globals, ghosts>>

\* if request.method == "POST": question = ...strip(); if not question: redirect
\* The request's method and form are drawn where the handler first reads them.
L104(p, m, fm) ==
    /\ req[p].pc = "L104"
    /\ ValidInput(m, fm)
    /\ (m = "POST" /\ ~IsBlank(Question(fm))) => Len(Pairs(session)) < MaxHist
    /\ IF m = "GET"
       THEN req' = [req EXCEPT ![p].pc = "L122", ![p].method = m, ![p].form = fm]
       ELSE IF IsBlank(Question(fm))
            THEN req' = [req EXCEPT ![p].pc = "done", ![p].method = m, ![p].form = fm, ![p].resp = "redirect"]
            ELSE req' = [req EXCEPT ![p].pc = "L109", ![p].method = m, ![p].form = fm, ![p].question = Question(fm)]
    /\ UNCHANGED <<folder, storage, globals, session, ghosts>>

\* if query_engine is None: answer = "No data found ..."
L109(p) ==
    /\ req[p].pc = "L109"
    /\ IF req[p].ret_engine = NoEngine
       THEN req' = [req EXCEPT ![p].pc = "L118", ![p].answer = NoDataMsg]
       ELSE Goto(p, "L114")
    /\ UNCHANGED <<folder, storage, globals, session, ghosts>>

\* try: answer = str(query_engine.query(question)) except Exception as e: ...
L114(p) ==
    /\ req[p].pc = "L114"
    /\ \/ \E r \in QueryResults : req' = [req EXCEPT ![p].pc = "L118", ![p].answer = r]
       \/ \E e \in QueryErrors : req' = [req EXCEPT ![p].pc = "L118", ![p].answer = QueryErrorAnswer(e)]
    /\ UNCHANGED <<folder, storage, globals, session, ghosts>>

\* session["chat_history"].append({"q": question, "a": answer}); redirect
L118(p) ==
    /\ req[p].pc = "L118"
    /\ session' = [session EXCEPT !.chat_history = AppendPair(@, req[p].question, req[p].answer)]
    /\ req' = [req EXCEPT ![p].pc = "done", ![p].resp = "redirect"]
    /\ UNCHANGED <<folder, storage, globals, ghosts>>

\* return render_template("index.html", chat_history=session["chat_history"])
L122(p) ==
    /\ req[p].pc = "L122"
    /\ req' = [req EXCEPT ![p].pc = "done", ![p].resp = "page", ![p].shown = session.chat_history]
    /\ UNCHANGED <<folder, storage, globals, session, ghosts>>

\* The ids of indexes are names of objects and carry no meaning of their own:
\* once no request holds a reference, the objects still referenced are named
\* 1, 2, ... in the order _index, _query_engine's index, then the pair last
\* returned.
NameOrder == <<_index.id, _query_engine.of, warm.index.id, warm.engine.of>>
Rank(i) == IF i = 0 THEN 0 ELSE LET first == CHOOSE k \in 1 .. 4 : NameOrder[k] = i /\ \A j \in 1 .. (k - 1) : NameOrder[j] # i IN Cardinality({NameOrder[j] : j \in 1 .. first} \ {0})
Renamed(i) == IF Quiet' THEN Rank(i) ELSE i

\* the response leaves; the worker is free for the next request
Finish(p) ==
    /\ req[p].pc = "done"
    /\ req' = [req EXCEPT ![p] = IdleReq]
    /\ retry' = (req[p].exc \in {"L52", "L53"})
    /\ trace' = IF trace.on /\ Len(trace.log) < TraceLen THEN [trace EXCEPT !.log = Append(@, [method |-> req[p].method, form |-> req[p].form, resp |-> req[p].resp, shown |-> req[p].shown])] ELSE trace
    /\ _index' = [_index EXCEPT !.id = Renamed(@)]
    /\ _query_engine' = [of |-> Renamed(_query_engine.of)]
    /\ warm' = [warm EXCEPT !.index.id = Renamed(@), !.engine.of = Renamed(@)]
    /\ UNCHANGED <<folder, storage, session, call, started>>

GetIndexAndEngine(p) == L69(p) \/ L70(p) \/ L73(p) \/ L74(p) \/ L77(p) \/ L79(p) \/ L82(p) \/ L87(p) \/ L88(p) \/ L89(p) \/ L90(p) \/ L93(p) \/ L94(p)
BuildAndPersistIndex(p) == L52(p) \/ L53(p) \/ L55(p) \/ L57(p)
Home(p) == L101(p) \/ (\E m \in Methods, fm \in Forms : L104(p, m, fm)) \/ L109(p) \/ L114(p) \/ L118(p) \/ L122(p) \/ Finish(p)
Step(p) == GetIndexAndEngine(p) \/ BuildAndPersistIndex(p) \/ Home(p)

\* ------------------------------------------------------------- environment
Observed == retry' = FALSE /\ trace' = [on |-> FALSE, log |-> <<>>] /\ call' = NoCall /\ started' = started
Touched == Observed /\ warm' = NoWarm

WriteFile(f, t) ==
    /\ dataDir
    /\ files[f].kind # "dir"
    /\ files' = [files EXCEPT ![f] = [kind |-> "file", mtime |-> t]]
    /\ Touched
    /\ UNCHANGED <<dataDir, storage, globals, session, req>>

DeleteFile(f) ==
    /\ files[f].kind = "file"
    /\ files' = [files EXCEPT ![f] = NoEntry]
    /\ Touched
    /\ UNCHANGED <<dataDir, storage, globals, session, req>>

RemoveDataDir ==
    /\ dataDir
    /\ dataDir' = FALSE
    /\ files' = [f \in Files |-> NoEntry]
    /\ Touched
    /\ UNCHANGED <<storage, globals, session, req>>

MakeDataDir ==
    /\ ~dataDir
    /\ dataDir' = TRUE
    /\ Touched
    /\ UNCHANGED <<files, storage, globals, session, req>>

EditMarker(text) ==
    /\ persistDir
    /\ marker' = [exists |-> TRUE, text |-> text]
    /\ Touched
    /\ UNCHANGED <<folder, persistDir, persisted, globals, session, req>>

DeleteMarker ==
    /\ marker.exists
    /\ marker' = NoMarker
    /\ Touched
    /\ UNCHANGED <<folder, persistDir, persisted, globals, session, req>>

RemoveIndexFiles ==
    /\ persisted.exists
    /\ persisted' = NoPersisted
    /\ Observed
    /\ UNCHANGED <<folder, persistDir, marker, globals, session, req, warm>>

RemovePersistDir ==
    /\ persistDir
    /\ persistDir' = FALSE
    /\ persisted' = NoPersisted
    /\ marker' = NoMarker
    /\ Touched
    /\ UNCHANGED <<folder, globals, session, req>>

\* the server process is restarted: the module globals start as None again
Restart ==
    /\ Quiet
    /\ _index # None \/ _query_engine # NoEngine
    /\ _index' = None
    /\ _query_engine' = NoEngine
    /\ Touched
    /\ UNCHANGED <<folder, storage, session, req>>

\* a write stamped by the clock: its mtime is not older than any time on record
OnRecord == {files[f].mtime : f \in Files} \cup {ReadCachedBuildTime(marker)} \cup {_index.docs[f] : f \in Files} \cup {persisted.docs[f] : f \in Files} \cup UNION {{req[p].documents[f], req[p].index.docs[f]} : p \in Procs, f \in Files}

WriteFileNow(f, t) ==
    /\ \A u \in OnRecord : u <= t
    /\ WriteFile(f, t)

FolderEditNow == (\E f \in Files, t \in Times : WriteFileNow(f, t)) \/ (\E f \in Files : DeleteFile(f)) \/ RemoveDataDir \/ MakeDataDir

FolderEdit == (\E f \in Files, t \in Times : WriteFile(f, t)) \/ (\E f \in Files : DeleteFile(f)) \/ RemoveDataDir \/ MakeDataDir
StorageEdit == (\E text \in MarkerTexts : EditMarker(text)) \/ DeleteMarker \/ RemoveIndexFiles \/ RemovePersistDir

\* ------------------------------------------------------------- specifications
\* requests one at a time; the folder and the storage change between requests
Next ==
    \/ Quiet /\ Begin(1) /\ UNCHANGED started
    \/ Step(1)
    \/ Quiet /\ FolderEdit
    \/ Quiet /\ StorageEdit
    \/ Restart

Spec == Init /\ [][Next]_vars

\* one request at a time, the document folder changing at any moment, every
\* write stamped by the clock; nobody else touches the storage folder
NextFolder ==
    \/ Quiet /\ Begin(1) /\ UNCHANGED started
    \/ Step(1)
    \/ FolderEditNow
    \/ Restart

SpecFolder == Init /\ [][NextFolder]_vars

\* two requests served at once by two threads of one process, on the same
\* unlocked globals; a request goes to the first free thread; the folder
\* changes between requests; MaxRequests requests arrive in all, each a GET
\* or a POST of question=hello
ConcForms == {NoField, [has |-> TRUE, question |-> <<"hello">>]}

NextConc ==
    \/ \E p \in Procs : started < MaxRequests /\ (\A q \in Procs : q < p => req[q].pc # "idle") /\ Begin(p) /\ started' = started + 1
    \/ \E p \in Procs : Step(p) /\ req'[p].form \in ConcForms
    \/ Quiet /\ FolderEdit

SpecConc == Init /\ [][NextConc]_vars

\* the helpers called on their own
\* _write_cached_build_time(ts), from any state of the storage folder
CallWrite(ts) ==
    /\ persistDir' = TRUE
    /\ marker' = WriteCachedBuildTime(ts)
    /\ call' = [call EXCEPT !.op = "write", !.ts = ts, !.writes = IF @ < 2 THEN @ + 1 ELSE @, !.made = @ \/ ~persistDir]
    /\ UNCHANGED <<folder, persisted, globals, session, req, retry, trace, warm, started>>

\* _read_cached_build_time()
CallRead ==
    /\ call' = [call EXCEPT !.op = "read", !.ret = ReadCachedBuildTime(marker)]
    /\ UNCHANGED <<folder, storage, globals, session, req, retry, trace, warm, started>>

\* the timestamp helpers, with the storage folder edited or removed in between
NextMarker ==
    \/ \E ts \in Stamps : CallWrite(ts)
    \/ CallRead
    \/ \E text \in MarkerTexts : EditMarker(text)
    \/ DeleteMarker
    \/ RemovePersistDir

SpecMarker == Init /\ [][NextMarker]_vars

\* _latest_mtime(folder) on a folder that is missing (and so lists nothing)
\* or holds the listed entries
CallLatest(isdir, fs) ==
    /\ ~isdir => fs = NoListing
    /\ call' = [call EXCEPT !.op = "latest", !.isdir = isdir, !.entries = fs, !.ret = LatestMtime(isdir, fs)]
    /\ UNCHANGED <<folder, storage, globals, session, req, retry, trace, warm, started>>

NextListing == \E isdir \in BOOLEAN, fs \in Listings : CallLatest(isdir, fs)

SpecListing == Init /\ [][NextListing]_vars


\* ------------------------------------------------------------- properties
\* the points of a request
Returned(p) == req[p].pc = "L101"
Failed(p) == req[p].pc = "done" /\ req[p].exc # "none"
Ended(p) == Returned(p) \/ Failed(p)
Answered(p) == req[p].pc = "done"
BlankPost(p) == Answered(p) /\ req[p].method = "POST" /\ Question(req[p].form) = <<>>
AskingPost(p) == Answered(p) /\ req[p].method = "POST" /\ Question(req[p].form) # <<>>

\* the folder against the marker as it was when the call began (with requests
\* one at a time the folder does not change during a call)
Stale(p) == LatestMtime(dataDir, files) > ReadCachedBuildTime(req[p].pre.marker)
NoFiles == ~dataDir \/ RegularFiles(files) = {}
Corrupt(mk) == mk.exists /\ ~FloatOk(mk.text)
WholePair(idx, eng) == IF idx = None THEN eng = NoEngine ELSE eng.of = idx.id
StartsWith(s, prefix) == Len(s) >= Len(prefix) /\ SubSeq(s, 1, Len(prefix)) = prefix

\* C1: a call of get_index_and_engine made while the folder's newest mtime is
\* greater than the recorded build timestamp invokes _build_and_persist_index,
\* and when it returns the recorded timestamp equals the folder's newest mtime.
C1_StaleCallRebuilds == \A p \in Procs : (Ended(p) /\ Stale(p) => req[p].built) /\ (Returned(p) /\ Stale(p) => ReadCachedBuildTime(marker) = LatestMtime(dataDir, files))

C1_Witness == \E p \in Procs : Returned(p) /\ Stale(p) /\ req[p].built /\ req[p].pre.index # None /\ req[p].pre.marker.exists

\* C2: a call made while the folder's newest mtime is not greater than the
\* recorded build timestamp never invokes _build_and_persist_index.
C2_FreshCallNeverBuilds == \A p \in Procs : Ended(p) /\ ~Stale(p) => ~req[p].built

C2_Witness == \E p \in Procs : Returned(p) /\ ~Stale(p) /\ req[p].loaded /\ ~req[p].built /\ ~NoFiles

\* C3: with no request in flight, a non-null in-memory pair reflects every
\* file version whose mtime is not greater than the recorded build timestamp.
C3_IndexCoversRecorded == (Quiet /\ _index # None /\ _query_engine # NoEngine) => \A f \in RegularFiles(files) : files[f].mtime <= ReadCachedBuildTime(marker) => _index.docs[f] = files[f].mtime

\* C4: when the folder is missing or holds no files, get_index_and_engine
\* builds nothing and returns a null pair, and a non-blank POST appends
\* exactly one pair whose answer is the fixed no-data message.  (Stated for
\* calls that began with a whole cached pair, so that no earlier failure is
\* involved.)
C4_NoFilesNullPair == \A p \in Procs : (NoFiles /\ WholePair(req[p].pre.index, req[p].pre.engine)) => ((Returned(p) => ~req[p].built /\ req[p].ret_index = None /\ req[p].ret_engine = NoEngine) /\ (AskingPost(p) => session.chat_history = Append(Pairs(req[p].pre.session), [q |-> Question(req[p].form), a |-> NoDataMsg])))

\* C5: a POST with a missing, empty or whitespace-only question leaves the
\* transcript's pairs unchanged and is answered with a redirect.
C5_BlankPostRedirects == \A p \in Procs : BlankPost(p) => Pairs(session) = Pairs(req[p].pre.session) /\ req[p].resp = "redirect"

\* C6: a POST with a blank question changes nothing: when it is answered, the
\* in-memory pair, the persisted index and the recorded timestamp are as before
\* the request, and no rebuild and no load from disk was performed.
C6_BlankPostChangesNothing == \A p \in Procs : (BlankPost(p) /\ req[p].exc = "none") => Pairs(session) = Pairs(req[p].pre.session) /\ _index = req[p].pre.index /\ _query_engine = req[p].pre.engine /\ persisted = req[p].pre.persisted /\ marker = req[p].pre.marker /\ ~req[p].built /\ ~req[p].loaded

\* C7: a POST with a non-blank question and a non-null query engine is
\* answered with a redirect after exactly one pair (stripped question, answer)
\* was appended at the end of the transcript, the answer being the query's
\* result or a text starting with "Query error: ", whether the query returned
\* or raised.
C7_QueryNeverPropagates == \A p \in Procs : (AskingPost(p) /\ req[p].ret_engine # NoEngine) => req[p].resp = "redirect" /\ req[p].exc = "none" /\ session.has /\ session.chat_history = Append(Pairs(req[p].pre.session), [q |-> Question(req[p].form), a |-> req[p].answer]) /\ (req[p].answer \in QueryResults \/ StartsWith(req[p].answer, QueryErrorPrefix))

C7_Witness == \E p \in Procs : AskingPost(p) /\ req[p].ret_engine # NoEngine /\ StartsWith(req[p].answer, QueryErrorPrefix) /\ Len(session.chat_history) = 2 /\ session.chat_history[1].a \in QueryResults

\* C8: with a marker file that exists but does not parse, the recorded time
\* reads as 0 and the call neither reuses the in-memory index nor loads the
\* persisted one, whatever the folder holds.  (Stated for calls that began
\* with a whole cached pair and a stored index, so that no earlier failure is
\* involved.)
C8_CorruptMarkerAlwaysStale == \A p \in Procs : (Ended(p) /\ Corrupt(req[p].pre.marker) /\ WholePair(req[p].pre.index, req[p].pre.engine) /\ req[p].pre.persisted.exists) => req[p].cached_mtime = 0 /\ ~req[p].loaded /\ (Returned(p) /\ req[p].ret_index # None => req[p].built)

\* C9: when document loading or index construction raises, the request ends
\* in a server error with the transcript, the in-memory pair and the recorded
\* timestamp as before it, the folder is still newer than the recorded
\* timestamp, and the next request invokes the build again.
C9_BuildFailureConfined ==
    \A p \in Procs :
        /\ (Answered(p) /\ req[p].exc \in {"L52", "L53"}) => (req[p].resp = "error" /\ session = req[p].pre.session /\ _index = req[p].pre.index /\ _query_engine = req[p].pre.engine /\ marker = req[p].pre.marker /\ LatestMtime(dataDir, files) > ReadCachedBuildTime(marker))
        /\ (Ended(p) /\ req[p].pre.retry) => req[p].built

C9_Witness == \E p \in Procs : Returned(p) /\ req[p].pre.retry /\ req[p].built /\ req[p].pre.index # None

\* C10: from the initial state, GET shows an empty transcript; then POST
\* question=hello is answered with a redirect; then GET shows exactly one
\* entry, whose question is "hello" and whose answer is the no-data message.
Hello == [has |-> TRUE, question |-> <<"hello">>]
FirstIsGet == Len(trace.log) >= 1 /\ trace.log[1].method = "GET"
ThenPostHello == FirstIsGet /\ Len(trace.log) >= 2 /\ trace.log[2].method = "POST" /\ trace.log[2].form = Hello
ThenGet == ThenPostHello /\ Len(trace.log) >= 3 /\ trace.log[3].method = "GET"
C10_EmptyFolderScenario ==
    /\ FirstIsGet => (trace.log[1].resp = "page" /\ trace.log[1].shown = <<>>)
    /\ ThenPostHello => trace.log[2].resp = "redirect"
    /\ ThenGet => (trace.log[3].resp = "page" /\ trace.log[3].shown = <<[q |-> <<"hello">>, a |-> NoDataMsg]>>)

C10_Witness == ThenGet /\ trace.on

\* C11: _write_cached_build_time(ts) leaves the storage folder and the marker
\* in place, whether or not the folder existed before, and a
\* _read_cached_build_time() that follows returns ts, the value of the last
\* write, whatever was written or left in the marker before.
C11_WriteThenRead == (call.op = "write" => persistDir /\ marker.exists /\ ReadCachedBuildTime(marker) = call.ts) /\ (call.op = "read" /\ call.writes >= 1 => call.ret = call.ts)

C11_Witness == call.op = "read" /\ call.writes = 2 /\ call.made /\ call.ts >= 10 /\ call.ret = call.ts

\* C12: _latest_mtime returns 0 when the folder is missing or has no regular
\* file directly inside it, and otherwise the greatest mtime among exactly
\* those regular files; subfolders and what they hold do not count.
C12_LatestOverRegularFiles == call.op = "latest" => LET reg == {n \in Names : call.entries[n].kind = "file"} IN IF ~call.isdir \/ reg = {} THEN call.ret = 0 ELSE (\E n \in reg : call.ret = call.entries[n].mtime) /\ (\A n \in reg : call.entries[n].mtime <= call.ret)

C12_Witness == call.op = "latest" /\ call.isdir /\ call.ret > 0 /\ (\E n \in Names : call.entries[n].kind = "dir" /\ call.entries[n].mtime > call.ret /\ call.entries[n].inside > call.ret) /\ Cardinality({n \in Names : call.entries[n].kind = "file"}) = 2

\* C13: after a call that returned a non-null pair, a later call made with the
\* folder and the marker unchanged neither builds nor loads and returns the
\* very same index and engine; and a call that begins with no in-memory
\* index, a marker and a persisted index on disk and the folder not newer than
\* the recorded timestamp loads the persisted index and does not build.
C13_WarmCallsReuse ==
    \A p \in Procs :
        /\ (Ended(p) /\ req[p].pre.warm.on) => (Returned(p) /\ ~req[p].built /\ ~req[p].loaded /\ req[p].ret_index = req[p].pre.warm.index /\ req[p].ret_engine = req[p].pre.warm.engine)
        /\ (Ended(p) /\ req[p].pre.index = None /\ req[p].pre.marker.exists /\ req[p].pre.persisted.exists /\ ~Stale(p)) => (req[p].loaded /\ ~req[p].built /\ req[p].exc \in {"none", "L93"} /\ (Returned(p) => req[p].ret_index.docs = req[p].pre.persisted.docs /\ req[p].ret_index = _index))

C13_Witness == \E p \in Procs : Returned(p) /\ req[p].pre.warm.on /\ ~req[p].pre.persisted.exists /\ req[p].ret_engine # NoEngine /\ ~NoFiles

C13_WitnessLoad == \E p \in Procs : Returned(p) /\ req[p].pre.index = None /\ req[p].pre.marker.exists /\ req[p].pre.persisted.exists /\ ~Stale(p) /\ req[p].loaded /\ ~NoFiles

\* C14: an index is reused only while the folder is as it was when the index
\* was built: a call that returns an index without building it returns one
\* built from exactly the file versions the folder holds now.  (Stated for a
\* folder that holds a file and for calls that began with a whole cached
\* pair, so that neither the empty folder nor an earlier failure is involved.)
C14_ReuseOnlyIfUnchanged == \A p \in Procs : (Returned(p) /\ ~NoFiles /\ WholePair(req[p].pre.index, req[p].pre.engine) /\ req[p].ret_index # None /\ ~req[p].built) => req[p].ret_index.docs = LoadData(files)

\* C15: every request leaves the transcript as it found it, except a POST
\* with a non-blank question that ends without a server error, which leaves
\* it with exactly one more pair (stripped question, answer) at its end; so
\* the transcript is, in request order, the pairs of exactly those POSTs.
C15_TranscriptIsPostLog == \A p \in Procs : Answered(p) => IF AskingPost(p) /\ req[p].exc = "none" THEN session.has /\ session.chat_history = Append(Pairs(req[p].pre.session), [q |-> Question(req[p].form), a |-> req[p].answer]) ELSE Pairs(session) = Pairs(req[p].pre.session)

C15_Witness == \E p \in Procs : Answered(p) /\ req[p].method = "GET" /\ req[p].resp = "page" /\ Len(req[p].shown) = 2 /\ req[p].shown[1].a = NoDataMsg /\ req[p].shown[2].a \in QueryResults /\ req[p].shown = Pairs(req[p].pre.session)

\* C16: with requests one at a time, whenever a call of get_index_and_engine
\* has returned or raised, _index is null exactly when _query_engine is null,
\* and a non-null _query_engine is the one created from the current _index.
C16_PairAlwaysWhole == \A p \in Procs : Ended(p) => WholePair(_index, _query_engine)

Rebuilding(q) == InCall(q) /\ req[q].built
BeganWhole(p) == WholePair(req[p].pre.index, req[p].pre.engine)

\* C17: with two requests served at once, a request whose call returns while
\* the other request is rebuilding obtains a whole pair (never a non-null
\* index with a null engine or with the engine of another index), and its
\* non-blank question, asked while the folder has files, is not answered with
\* the no-data message.  (Stated for requests that both began with a whole
\* cached pair, so that no earlier failure is involved.)
C17_NoTornPair ==
    \A p \in Procs : \A q \in Procs \ {p} :
        (Rebuilding(q) /\ BeganWhole(p) /\ BeganWhole(q) /\ ~NoFiles) =>
            /\ Returned(p) => WholePair(req[p].ret_index, req[p].ret_engine)
            /\ req[p].pc = "L118" => req[p].answer # NoDataMsg

\* C17, amended: a request whose call of get_index_and_engine does not
\* overlap the other request's call obtains a non-null index paired with the
\* engine created from it when the call built or loaded the index itself, and
\* the pair the globals held when it began (or the null pair of the no-data
\* path) otherwise; and a non-blank POST that ends without a server error is
\* answered with the no-data message exactly when the engine its own call
\* obtained is null.
C17_AloneCallsWhole ==
    \A p \in Procs :
        /\ (Returned(p) /\ req[p].alone /\ (req[p].built \/ req[p].loaded)) => (req[p].ret_index # None /\ req[p].ret_engine = [of |-> req[p].ret_index.id])
        /\ (Returned(p) /\ req[p].alone /\ ~req[p].built /\ ~req[p].loaded) => ((req[p].ret_index = req[p].pre.index /\ req[p].ret_engine = req[p].pre.engine) \/ (req[p].ret_index = None /\ req[p].ret_engine = NoEngine))
        /\ (AskingPost(p) /\ req[p].exc = "none") => (req[p].answer = NoDataMsg <=> req[p].ret_engine = NoEngine)

C17_Witness == \E p \in Procs : \E q \in Procs \ {p} : Returned(p) /\ req[p].alone /\ req[p].built /\ req[p].ret_engine # NoEngine /\ req[q].pc \in {"L101", "L104", "L109", "L114", "L118", "L122", "done"}

TypeOK == \A p \in Procs : req[p].pc \in {"idle", "L69", "L70", "L73", "L74", "L77", "L79", "L82", "L87", "L88", "L89", "L52", "L53", "L55", "L57", "L90", "L93", "L94", "L101", "L104", "L109", "L114", "L118", "L122", "done"}
====
